---- MODULE Spec2Model ----
(***************************************************************************)
(* Portfolio ledger of src/src/api_library.py: the Transaction / Buy /     *)
(* Sell classes, the Portfolio class and the price lookup they use.        *)
(*                                                                         *)
(* Money is counted in thousandths of the quote currency, so that the      *)
(* rounding to two fractional digits done by round(x, 2) is visible.       *)
(* Python exceptions are modelled by their class name; "None" means that   *)
(* the call returned normally.                                             *)
(***************************************************************************)
EXTENDS Integers, Sequences, FiniteSets, TLC

(* ------------------------------ bounds --------------------------------- *)

MaxAmount == 2

MaxPrice == 1

MaxStartingFunds == 1

MaxRequests == 2

MaxTicks == 2

(* ------------------------------ domains -------------------------------- *)

Ids == {"bitcoin", "ethereum"}

Amounts == 0..MaxAmount

Prices == {k * 500 : k \in 0..MaxPrice}

StartingFundsDomain == {-1000, 0, 1004} \cup {k * 1000 : k \in 1..MaxStartingFunds}

PyVersions == {"py311", "py310"}

(* --------------------------- Transaction ------------------------------- *)

\* An object of class Transaction, Buy or Sell.  hasAmount / hasPrice say
\* whether the instance attribute amount / pointPrice has been set.
TxObject(cls, id, hasAmount, amount, hasPrice, price) ==
    [cls |-> cls, crypto_id |-> id, hasAmount |-> hasAmount, amount |-> amount,
     hasPrice |-> hasPrice, pointPrice |-> price]

NoTx == TxObject("NoObject", "", FALSE, 0, FALSE, 0)

\* Transaction.__init__ sets crypto_id and amount, never pointPrice.
Transaction(id, amount) == TxObject("Transaction", id, TRUE, amount, FALSE, 0)

\* The objects of the class hierarchy that a caller can hand to
\* makeTransaction(transaction: Transaction).
TransactionObjects ==
    {Transaction(id, a) : id \in Ids, a \in Amounts}
    \cup {TxObject(c, id, TRUE, a, TRUE, p) :
            c \in {"Buy", "Sell"}, id \in Ids, a \in Amounts, p \in Prices}
    \cup {TxObject(c, id, FALSE, 0, TRUE, p) :
            c \in {"Buy", "Sell"}, id \in Ids, p \in Prices}

\* Result of a Python expression: the exception raised, or the value.
\* isNone marks the value None.
Raised(e) == [exc |-> e, isNone |-> FALSE, val |-> 0]

Returned(v) == [exc |-> "None", isNone |-> FALSE, val |-> v]

ReturnedNone == [exc |-> "None", isNone |-> TRUE, val |-> 0]

\* Transaction.value / Buy.value / Sell.value.  Without the instance
\* attribute, self.amount is the bound method Transaction.amount and the
\* multiplication raises TypeError.
value(t) ==
    IF t.cls = "Buy"
    THEN IF ~t.hasAmount THEN Raised("TypeError")
         ELSE IF ~t.hasPrice THEN Raised("AttributeError")
         ELSE Returned(-1 * t.amount * t.pointPrice)
    ELSE IF t.cls = "Sell"
    THEN IF ~t.hasPrice THEN Raised("AttributeError")
         ELSE IF ~t.hasAmount THEN Raised("TypeError")
         ELSE Returned(t.amount * t.pointPrice)
    ELSE ReturnedNone

(* ----------------------------- price source ---------------------------- *)

\* One entry of the simple/price response: {"usd": p} or an object
\* without the quote currency.
Infos == {[hasUsd |-> FALSE, usd |-> 0]} \cup {[hasUsd |-> TRUE, usd |-> p] : p \in Prices}

\* What PullData._make_request("simple/price") gives: a JSON object, None
\* after a request failure, or RuntimeError when the 429 retries run out.
Responses ==
    {[kind |-> "failed", body |-> <<>>], [kind |-> "throttled", body |-> <<>>]}
    \cup {[kind |-> "json", body |-> b] : b \in UNION {[D -> Infos] : D \in SUBSET Ids}}

\* PullData.get_current_price: {} when there is no data, else id -> price
\* with 0 for an entry that lacks the quote currency.
get_current_price(resp) ==
    IF resp.kind = "throttled" THEN [exc |-> "RuntimeError", prices |-> <<>>]
    ELSE IF resp.kind = "failed" \/ DOMAIN resp.body = {}
    THEN [exc |-> "None", prices |-> <<>>]
    ELSE [exc |-> "None",
          prices |-> [id \in DOMAIN resp.body |->
                        IF resp.body[id].hasUsd THEN resp.body[id].usd ELSE 0]]

\* Buy.__init__: indexes the price map by id (KeyError when absent), then
\* indexes the price itself by id, which raises TypeError for a number.
\* No object results.
Buy(id, resp, amount) ==
    LET r == get_current_price(resp) IN
    IF r.exc # "None" THEN [exc |-> r.exc, obj |-> NoTx]
    ELSE IF id \notin DOMAIN r.prices THEN [exc |-> "KeyError", obj |-> NoTx]
    ELSE [exc |-> "TypeError", obj |-> NoTx]

\* Sell.__init__: super(crypto_id, datapuller, amount) raises TypeError
\* before anything else runs, so the price source is never asked.
Sell(id, amount) == [exc |-> "TypeError", obj |-> NoTx]

(* ------------------------------ Portfolio ------------------------------ *)

\* The value of Portfolio._transactions: the typing alias List[Transaction]
\* (isList = FALSE) or a list object with its items.
ListAlias == [isList |-> FALSE, items |-> <<>>]

ListOf(items) == [isList |-> TRUE, items |-> items]

\* A variant of the constructor that starts the log as an empty list.
PortfolioInit_EmptyList(startFunds) ==
    [funds |-> startFunds, transactions |-> ListOf(<<>>), portfolio_value |-> 0]

\* Portfolio.__init__
PortfolioInit(startFunds) ==
    [funds |-> startFunds, transactions |-> ListAlias, portfolio_value |-> 0]

\* self._transactions.append(transaction): on the typing alias the
\* attribute is the unbound list.append and the call raises TypeError.
ListAppend(log, t) ==
    IF log.isList THEN [exc |-> "None", log |-> ListOf(Append(log.items, t))]
    ELSE [exc |-> "TypeError", log |-> log]

\* self.funds += x
AddFunds(f, v) ==
    IF v.exc # "None" THEN [exc |-> v.exc, funds |-> f]
    ELSE IF v.isNone THEN [exc |-> "TypeError", funds |-> f]
    ELSE [exc |-> "None", funds |-> f + v.val]

\* A variant of makeTransaction that updates funds before it appends.
makeTransaction_FundsFirst(f, log, t) ==
    LET upd == AddFunds(f, value(t)) IN
    IF upd.exc # "None" THEN [exc |-> upd.exc, funds |-> f, transactions |-> log]
    ELSE LET app == ListAppend(log, t) IN
         [exc |-> app.exc, funds |-> upd.funds, transactions |-> app.log]

\* Portfolio.makeTransaction: append, then funds += transaction.value().
makeTransaction(f, log, t) ==
    LET app == ListAppend(log, t) IN
    IF app.exc # "None" THEN [exc |-> app.exc, funds |-> f, transactions |-> log]
    ELSE LET upd == AddFunds(f, value(t)) IN
         [exc |-> upd.exc, funds |-> upd.funds, transactions |-> app.log]

\* round(x, 2) on thousandths: to the nearest hundredth, ties to even.
Round2(x) ==
    LET q == x \div 10
        r == x % 10
    IN IF r < 5 THEN q * 10
       ELSE IF r > 5 THEN (q + 1) * 10
       ELSE IF q % 2 = 0 THEN q * 10 ELSE (q + 1) * 10

\* Portfolio.seeCurrentFunds
seeCurrentFunds(f) == Round2(f)

RECURSIVE NetAmount(_, _)
\* The holdings loop of seePortfolioValue for one coin: Buy adds the
\* amount, Sell subtracts it, any other object leaves it.
NetAmount(items, id) ==
    IF items = <<>> THEN 0
    ELSE LET t == Head(items)
             d == IF t.crypto_id # id THEN 0
                  ELSE IF t.cls = "Buy" THEN t.amount
                  ELSE IF t.cls = "Sell" THEN -1 * t.amount
                  ELSE 0
         IN d + NetAmount(Tail(items), id)

RECURSIVE SumOver(_, _, _)
\* total_value: sum of prices[coin] * amt over the coins that have a price.
SumOver(coins, items, prices) ==
    IF coins = {} THEN 0
    ELSE LET c == CHOOSE x \in coins : TRUE
             part == IF c \in DOMAIN prices THEN prices[c] * NetAmount(items, c) ELSE 0
         IN part + SumOver(coins \ {c}, items, prices)

\* Portfolio.seePortfolioValue.  The typing alias is truthy, and iterating
\* it either yields an object without crypto_id (AttributeError, Python
\* 3.11 and later) or is refused (TypeError, earlier versions).
seePortfolioValue(log, resp, py) ==
    IF ~log.isList
    THEN Raised(IF py = "py311" THEN "AttributeError" ELSE "TypeError")
    ELSE IF log.items = <<>> THEN Returned(0)
    ELSE IF \E i \in 1..Len(log.items) :
              log.items[i].cls \in {"Buy", "Sell"} /\ ~log.items[i].hasAmount
    THEN Raised("TypeError")
    ELSE LET r == get_current_price(resp)
             coins == {log.items[i].crypto_id : i \in 1..Len(log.items)}
         IN IF r.exc # "None" THEN Raised(r.exc)
            ELSE Returned(Round2(SumOver(coins, log.items, r.prices)))

(* ------------------------ transport and rate limit --------------------- *)

\* PullData.__init__
rate_limit_delay == 10

max_retries == 5

\* One answer of the raw requests.get: a response with its status class,
\* its Retry-After header (0 when absent) and its JSON body, or a raised
\* requests exception.
Answer(kind, retryAfter, body) == [kind |-> kind, retryAfter |-> retryAfter, body |-> body]

RetryAfterValues == {3}

\* The server as one request meets it: the first n429 raw calls are
\* answered 429, with a Retry-After header when withHeader says so for
\* that call, and every later call gets the answer final.
Server(n429, withHeader, final) == [n429 |-> n429, withHeader |-> withHeader, final |-> final]

HeaderPatterns == {"none", "even"}

AnswerAt(server, k) ==
    IF k < server.n429
    THEN LET h == \/ server.withHeader = "all"
                  \/ (server.withHeader = "even" /\ k % 2 = 0)
         IN Answer("429", IF h THEN CHOOSE v \in RetryAfterValues : TRUE ELSE 0, <<>>)
    ELSE server.final

RECURSIVE Pow2(_)
Pow2(k) == IF k = 0 THEN 1 ELSE 2 * Pow2(k - 1)

RECURSIVE SumSeq(_)
SumSeq(q) == IF q = <<>> THEN 0 ELSE Head(q) + SumSeq(Tail(q))

\* Outcome of one requests.get call: the exception raised or the answer,
\* the number of raw transport calls and the sleeps made on the way.
GetResult(exc, answer, calls, waits) ==
    [exc |-> exc, answer |-> answer, calls |-> calls, waits |-> waits]

TransportException(a) ==
    IF a.kind = "timeout" THEN "Timeout"
    ELSE IF a.kind = "connection" THEN "ConnectionError"
    ELSE "None"

\* A variant of the retry loop that ignores the Retry-After header.
RECURSIVE limited_get_IgnoreHeader(_, _, _, _)
limited_get_IgnoreHeader(server, retries, pos, waits) ==
    LET a == AnswerAt(server, pos) IN
    IF a.kind = "429"
    THEN LET wait == rate_limit_delay * Pow2(retries)
         IN IF retries + 1 > max_retries
            THEN GetResult("RuntimeError", a, pos + 1, Append(waits, wait))
            ELSE limited_get_IgnoreHeader(server, retries + 1, pos + 1, Append(waits, wait))
    ELSE GetResult(TransportException(a), a, pos + 1, waits)

\* limited_get (the closure installed by _rate_limit), entered with
\* retries = 0: on 429 it sleeps Retry-After or rate_limit_delay *
\* 2^retries, raises RuntimeError once retries exceeds max_retries, and
\* returns any other response.  pos counts the raw calls made.
RECURSIVE limited_get(_, _, _, _)
limited_get(server, retries, pos, waits) ==
    LET a == AnswerAt(server, pos) IN
    IF a.kind = "429"
    THEN LET wait == IF a.retryAfter # 0 THEN a.retryAfter
                     ELSE rate_limit_delay * Pow2(retries)
         IN IF retries + 1 > max_retries
            THEN GetResult("RuntimeError", a, pos + 1, Append(waits, wait))
            ELSE limited_get(server, retries + 1, pos + 1, Append(waits, wait))
    ELSE GetResult(TransportException(a), a, pos + 1, waits)

\* The global requests.get after depth calls of _rate_limit: the raw
\* transport when depth = 0, else depth nested limited_get closures.  The
\* innermost closure absorbs every 429, so the outer ones pass its result
\* or its exception on.
requests_get(server, depth) ==
    IF depth = 0
    THEN GetResult(TransportException(AnswerAt(server, 0)), AnswerAt(server, 0), 1, <<>>)
    ELSE limited_get(server, 0, 0, <<>>)

\* A variant of _rate_limit that records the call time before it sleeps.
rate_limit_RecordFirst(t, last, depth) ==
    LET elapsed == t - last
        slept == IF elapsed < rate_limit_delay THEN rate_limit_delay - elapsed ELSE 0
    IN [slept |-> slept, last_request_time |-> t, wrappers |-> depth + 1]

\* PullData._rate_limit: sleep until rate_limit_delay has passed since
\* last_request_time, record the time, and replace the global
\* requests.get by a new closure around the current one.
rate_limit(t, last, depth) ==
    LET elapsed == t - last
        slept == IF elapsed < rate_limit_delay THEN rate_limit_delay - elapsed ELSE 0
    IN [slept |-> slept, last_request_time |-> t + slept, wrappers |-> depth + 1]

\* PullData._make_request after _rate_limit: a requests exception or a
\* non-2xx status gives None, RuntimeError is not caught.
make_request(server, depth) ==
    LET g == requests_get(server, depth) IN
    IF g.exc = "RuntimeError" THEN [exc |-> "RuntimeError", isNone |-> TRUE, get |-> g]
    ELSE IF g.exc # "None" \/ g.answer.kind # "ok" THEN [exc |-> "None", isNone |-> TRUE, get |-> g]
    ELSE [exc |-> "None", isNone |-> FALSE, get |-> g]

(* ------------------------------ MarketData ----------------------------- *)

MinLimit == 1

MaxLimit == 250

Limits == {MinLimit - 1, MinLimit, MaxLimit, MaxLimit + 1}

\* One row of the coins/markets response: which keys it has, its symbol
\* and its current_price (possibly null).
Row(hasId, hasName, hasSymbol, symbol, hasPrice, priceNull, price) ==
    [hasId |-> hasId, hasName |-> hasName, hasSymbol |-> hasSymbol, symbol |-> symbol,
     hasPrice |-> hasPrice, priceNull |-> priceNull, price |-> price]

GoodRow == Row(TRUE, TRUE, TRUE, "btc", TRUE, FALSE, 500)

\* A complete row, and rows with one flaw each: an upper-case symbol, a
\* null price, an empty symbol, and no symbol, id, name or price key.
ResponseRows ==
    {GoodRow,
     Row(TRUE, TRUE, TRUE, "BTC", TRUE, FALSE, 1000),
     Row(TRUE, TRUE, TRUE, "eth", TRUE, TRUE, 0),
     Row(TRUE, TRUE, TRUE, "", TRUE, FALSE, 500),
     Row(TRUE, TRUE, FALSE, "", TRUE, FALSE, 500),
     Row(FALSE, TRUE, TRUE, "eth", TRUE, FALSE, 1500),
     Row(TRUE, FALSE, TRUE, "eth", TRUE, FALSE, 1500),
     Row(TRUE, TRUE, TRUE, "eth", FALSE, FALSE, 0)}

\* The bodies of the response: empty, one row, or a row before a
\* complete one.
Bodies == {<<>>} \cup {<<r>> : r \in ResponseRows} \cup {<<r, GoodRow>> : r \in ResponseRows}

\* The entry fetch_data builds for a kept row.
StoredRow(r) == [symbol |-> r.symbol, priceNull |-> r.priceNull, current_price |-> r.price]

\* all(j in i for j in ['name', 'symbol', 'current_price'])
KeepsRow(r) == r.hasName /\ r.hasSymbol /\ r.hasPrice

RECURSIVE crypto_list(_)
crypto_list(body) ==
    IF body = <<>> THEN <<>>
    ELSE (IF KeepsRow(Head(body)) THEN <<StoredRow(Head(body))>> ELSE <<>>)
         \o crypto_list(Tail(body))

NoTime == [isNone |-> TRUE, at |-> 0]

TimeAt(t) == [isNone |-> FALSE, at |-> t]

\* Result of fetch_data: exception or boolean, the new cache and
\* timestamp, the answer of requests.get (the raw transport calls made,
\* the time slept, the body it handed over).
FetchResult(exc, ok, d, ts, g) ==
    [exc |-> exc, ok |-> ok, data |-> d, previous_updates |-> ts, calls |-> g.calls,
     waits |-> g.waits, body |-> IF g.exc = "None" THEN g.answer.body ELSE <<>>]

\* No request was made.
NoGet == GetResult("None", Answer("none", 0, <<>>), 0, <<>>)

\* A variant of fetch_data that validates limit only after the request.
fetch_data_CheckLate(limit, server, depth, d, ts, t) ==
    LET g == requests_get(server, depth)
        done == t + SumSeq(g.waits)
        rows == crypto_list(g.answer.body)
        good == g.exc = "None" /\ g.answer.kind = "ok" /\ rows # <<>>
    IN IF ~(MinLimit <= limit /\ limit <= MaxLimit)
       THEN FetchResult("ValueError", FALSE,
                        IF good THEN rows ELSE d,
                        IF good THEN TimeAt(done) ELSE ts, g)
       ELSE IF good THEN FetchResult("None", TRUE, rows, TimeAt(done), g)
       ELSE FetchResult("None", FALSE, d, ts, g)

\* A variant of fetch_data that clears the cache when the fetch fails.
fetch_data_ClearOnFailure(limit, server, depth, d, ts, t) ==
    IF ~(MinLimit <= limit /\ limit <= MaxLimit)
    THEN FetchResult("ValueError", FALSE, d, ts, NoGet)
    ELSE LET g == requests_get(server, depth)
             done == t + SumSeq(g.waits)
             rows == crypto_list(g.answer.body)
         IN IF g.exc = "None" /\ g.answer.kind = "ok" /\ rows # <<>>
            THEN FetchResult("None", TRUE, rows, TimeAt(done), g)
            ELSE FetchResult("None", FALSE, <<>>, ts, g)

\* MarketData.fetch_data: ValueError for a limit outside 1..250 before any
\* request; every exception of the request is caught and gives False, as
\* do a 429, a non-2xx status, an empty body and a body without a kept
\* row; otherwise the cache and the timestamp are replaced.
fetch_data(limit, server, depth, d, ts, t) ==
    IF ~(MinLimit <= limit /\ limit <= MaxLimit)
    THEN FetchResult("ValueError", FALSE, d, ts, NoGet)
    ELSE LET g == requests_get(server, depth)
             done == t + SumSeq(g.waits)
             rows == crypto_list(g.answer.body)
         IN IF g.exc # "None" THEN FetchResult("None", FALSE, d, ts, g)
            ELSE IF g.answer.kind # "ok" THEN FetchResult("None", FALSE, d, ts, g)
            ELSE IF g.answer.body = <<>> THEN FetchResult("None", FALSE, d, ts, g)
            ELSE IF rows = <<>> THEN FetchResult("None", FALSE, d, ts, g)
            ELSE FetchResult("None", TRUE, rows, TimeAt(done), g)

Symbols == {"", " ", "btc", "BTC", " Btc", "eth"}

\* str.lower
Lower(sym) ==
    IF sym = "BTC" \/ sym = "Btc" THEN "btc"
    ELSE IF sym = " Btc" THEN " btc"
    ELSE sym

\* str.strip
Strip(sym) ==
    IF sym = " " THEN ""
    ELSE IF sym = " Btc" THEN "Btc"
    ELSE IF sym = " btc" THEN "btc"
    ELSE sym

\* Result of get_crypto_price: exception, None, or the current_price of a
\* row (which may itself be null).
PriceResult(exc, isNone, price) == [exc |-> exc, isNone |-> isNone, price |-> price]

\* MarketData.get_crypto_price: ValueError for an empty or blank symbol,
\* None for an empty cache, else the current_price of the first row whose
\* stored symbol equals the lowered and stripped query.
get_crypto_price(sym, d) ==
    IF sym = "" \/ Strip(sym) = "" THEN PriceResult("ValueError", TRUE, 0)
    ELSE IF d = <<>> THEN PriceResult("None", TRUE, 0)
    ELSE LET lower_symbol == Strip(Lower(sym))
             hits == {i \in 1..Len(d) : d[i].symbol = lower_symbol}
         IN IF hits = {} THEN PriceResult("None", TRUE, 0)
            ELSE LET i == CHOOSE x \in hits : \A y \in hits : x <= y IN
                 PriceResult("None", d[i].priceNull, d[i].current_price)

(* ------------------------------- state --------------------------------- *)

VARIABLES startingFunds, funds, transactions, portfolio_value, call, prev,
          now, last_request_time, wrappers, data, previous_updates, ncall

\* Portfolio, and the record of the last calls on it.
ledgerVars == <<startingFunds, funds, transactions, portfolio_value, call, prev>>

\* The clock, PullData.last_request_time, the number of limited_get
\* closures around the global requests.get, MarketData._data and
\* MarketData._previous_updates, and the record of the last client call.
netVars == <<now, last_request_time, wrappers, data, previous_updates, ncall>>

vars == <<ledgerVars, netVars>>

NoResp == [kind |-> "failed", body |-> <<>>]

\* Record of one call on the portfolio or of one constructor call: the
\* operation, its transaction argument or the object it built, the
\* exception or return value, the funds and log before the call, the price
\* response the call got, and for a constructor the crypto_id and amount
\* it was given.
CallWith(op, tx, exc, ret, f, log, resp) ==
    [op |-> op, tx |-> tx, exc |-> exc, ret |-> ret, preFunds |-> f, preLog |-> log,
     resp |-> resp, argId |-> "", argAmount |-> 0]

CallNew(op, id, amount, r, f, log, resp) ==
    [CallWith(op, r.obj, r.exc, 0, f, log, resp) EXCEPT !.argId = id, !.argAmount = amount]

Call(op, tx, exc, ret, f, log) == CallWith(op, tx, exc, ret, f, log, NoResp)

NoCall == Call("none", NoTx, "None", 0, 0, ListAlias)

\* prev keeps the last makeTransaction call that came before the current
\* call, when the call just before the current one was a makeTransaction.
Shift(c) == IF c.op = "makeTransaction" THEN c ELSE NoCall

\* Record of one call on PullData or MarketData: the operation, its
\* limit or symbol, the body fetch_data read, the 429 answers the server gave (how many, which with
\* a header), the exception, the returned value, the raw transport calls
\* made, the time slept by _rate_limit and the sleeps of the retry loop.
NetCall(op, limit, sym, server, exc, ret, price, calls, slept, waits, body) ==
    [op |-> op, limit |-> limit, symbol |-> sym, body |-> body,
     n429 |-> server.n429, withHeader |-> server.withHeader, finalKind |-> server.final.kind,
     exc |-> exc, ret |-> ret, price |-> price, calls |-> calls, slept |-> slept,
     waits |-> waits]

NoServer == Server(0, "none", Answer("none", 0, <<>>))

NoNetCall == NetCall("none", 0, "", NoServer, "None", "None", 0, 0, 0, <<>>, <<>>)

\* The process start: time.time() is far beyond rate_limit_delay.
StartTime == 100 * rate_limit_delay

\* PullData.__init__ and MarketData.__init__, with the untouched
\* requests.get.
NetInit ==
    /\ now = StartTime
    /\ last_request_time = 0
    /\ wrappers = 0
    /\ data = <<>>
    /\ previous_updates = NoTime
    /\ ncall = NoNetCall

LedgerInit ==
    \E sf \in StartingFundsDomain :
        LET p == PortfolioInit(sf) IN
        /\ startingFunds = sf
        /\ funds = p.funds
        /\ transactions = p.transactions
        /\ portfolio_value = p.portfolio_value
        /\ call = Call("init", NoTx, "None", 0, p.funds, p.transactions)
        /\ prev = NoCall

Init == LedgerInit /\ NetInit

MakeTransaction ==
    \E t \in TransactionObjects :
        LET r == makeTransaction(funds, transactions, t) IN
        /\ funds' = r.funds
        /\ transactions' = r.transactions
        /\ call' = Call("makeTransaction", t, r.exc, 0, funds, transactions)
        /\ prev' = Shift(call)
        /\ UNCHANGED <<startingFunds, portfolio_value, netVars>>

SeeCurrentFunds ==
    /\ call' = Call("seeCurrentFunds", NoTx, "None", seeCurrentFunds(funds), funds, transactions)
    /\ prev' = Shift(call)
    /\ UNCHANGED <<startingFunds, funds, transactions, portfolio_value, netVars>>

SeePortfolioValue ==
    \E resp \in Responses, py \in PyVersions :
        LET r == seePortfolioValue(transactions, resp, py) IN
        /\ call' = CallWith("seePortfolioValue", NoTx, r.exc, r.val, funds, transactions, resp)
        /\ prev' = Shift(call)
        /\ UNCHANGED <<startingFunds, funds, transactions, portfolio_value, netVars>>

\* Portfolio.seePastTransactions prints the log and returns None.
SeePastTransactions ==
    /\ call' = Call("seePastTransactions", NoTx, "None", 0, funds, transactions)
    /\ prev' = Shift(call)
    /\ UNCHANGED <<startingFunds, funds, transactions, portfolio_value, netVars>>

NewTransaction ==
    \E id \in Ids, a \in Amounts :
        /\ call' = CallNew("Transaction", id, a, [exc |-> "None", obj |-> Transaction(id, a)],
                            funds, transactions, NoResp)
        /\ prev' = Shift(call)
        /\ UNCHANGED <<startingFunds, funds, transactions, portfolio_value, netVars>>

NewBuy ==
    \E id \in Ids, a \in Amounts, resp \in Responses :
        LET r == Buy(id, resp, a) IN
        /\ call' = CallNew("Buy", id, a, r, funds, transactions, resp)
        /\ prev' = Shift(call)
        /\ UNCHANGED <<startingFunds, funds, transactions, portfolio_value, netVars>>

NewSell ==
    \E id \in Ids, a \in Amounts, resp \in Responses :
        LET r == Sell(id, a) IN
        /\ call' = CallNew("Sell", id, a, r, funds, transactions, resp)
        /\ prev' = Shift(call)
        /\ UNCHANGED <<startingFunds, funds, transactions, portfolio_value, netVars>>

\* The calls on a Portfolio.
Next ==
    \/ MakeTransaction
    \/ SeeCurrentFunds
    \/ SeePortfolioValue
    \/ SeePastTransactions

Spec == Init /\ [][Next]_vars

\* The constructor calls of the Transaction classes.
TxNext ==
    \/ NewTransaction
    \/ NewBuy
    \/ NewSell

TxSpec == Init /\ [][TxNext]_vars

(* --------------------------- client actions ---------------------------- *)

FinalAnswers(bodies) ==
    {Answer("ok", 0, b) : b \in bodies}
    \cup {Answer(k, 0, <<>>) : k \in {"http_error", "timeout", "connection"}}

\* The bodies the limiter is exercised with: an empty one and one good row.
PlainBodies == {<<>>, <<GoodRow>>}

\* What the server may do to a request of the limiter: no 429, one, as
\* many as there are retries, or one more; then a final answer.
LimiterServers ==
    {Server(n, h, f) : n \in {0, 1, max_retries, max_retries + 1}, h \in HeaderPatterns,
                       f \in FinalAnswers(PlainBodies)}

\* What the server may do to a fetch_data request that follows requests
\* of the limiter: no 429, or nothing but 429.
WrappedFetchServers ==
    {Server(n, "none", Answer("ok", 0, <<GoodRow>>)) : n \in {0, max_retries + 1}}

\* What the server may do to a fetch_data request on its own.
FetchServers ==
    {Server(0, "none", f) : f \in FinalAnswers(Bodies)}
    \cup {Server(1, "none", Answer("ok", 0, <<>>))}

\* What a PullData operation hands to its caller: the exception of
\* _make_request, "empty" for None or a falsy body, else "data".
ClientResult(r) ==
    IF r.exc # "None" THEN "raised"
    ELSE IF r.isNone \/ r.get.answer.body = <<>> THEN "empty"
    ELSE "data"

\* One PullData operation (get_market_data, get_crypto_details,
\* get_historical_data, get_current_price): _rate_limit, then the request
\* through the new requests.get.
PullRequest ==
    \E server \in LimiterServers :
        LET rl == rate_limit(now, last_request_time, wrappers)
            r == make_request(server, rl.wrappers)
        IN
        /\ wrappers < MaxRequests
        /\ now' = now + rl.slept + SumSeq(r.get.waits)
        /\ last_request_time' = rl.last_request_time
        /\ wrappers' = rl.wrappers
        /\ ncall' = NetCall("_make_request", 0, "", server, r.exc, ClientResult(r), 0,
                            r.get.calls, rl.slept, r.get.waits, <<>>)
        /\ UNCHANGED <<data, previous_updates, ledgerVars>>

\* MarketData.fetch_data, with the limit and the server drawn from the
\* given sets.
FetchDataWith(limits, servers) ==
    \E limit \in limits, server \in servers :
        LET f == fetch_data(limit, server, wrappers, data, previous_updates, now) IN
        /\ now' = now + SumSeq(f.waits)
        /\ data' = f.data
        /\ previous_updates' = f.previous_updates
        /\ ncall' = NetCall("fetch_data", limit, "", server, f.exc,
                            IF f.exc # "None" THEN "raised" ELSE IF f.ok THEN "True" ELSE "False",
                            0, f.calls, 0, f.waits, f.body)
        /\ UNCHANGED <<last_request_time, wrappers, ledgerVars>>

FetchData == FetchDataWith(Limits, FetchServers)

\* fetch_data in a process whose PullData has made requests before.
FetchAfterRequests ==
    /\ wrappers > 0
    /\ now < StartTime + rate_limit_delay * Pow2(max_retries + 1)
    /\ FetchDataWith({MaxLimit}, WrappedFetchServers)

GetCryptoPrice ==
    \E sym \in Symbols :
        LET r == get_crypto_price(sym, data) IN
        /\ ncall' = NetCall("get_crypto_price", 0, sym, NoServer, r.exc,
                            IF r.exc # "None" THEN "raised"
                            ELSE IF r.isNone THEN "None" ELSE "price",
                            r.price, 0, 0, <<>>, <<>>)
        /\ UNCHANGED <<now, last_request_time, wrappers, data, previous_updates, ledgerVars>>

\* Time passes between two calls.
Tick ==
    /\ now < StartTime + 4 * MaxTicks
    /\ now' = now + 4
    /\ UNCHANGED <<last_request_time, wrappers, data, previous_updates, ncall, ledgerVars>>

\* PullData() and MarketData(), beside a Portfolio that is left alone.
ClientInit ==
    /\ LedgerInit
    /\ startingFunds = 0
    /\ NetInit

LimiterNext ==
    \/ PullRequest
    \/ FetchAfterRequests
    \/ Tick

\* A process that uses PullData, and MarketData after it.
LimiterSpec == ClientInit /\ [][LimiterNext]_vars

MarketNext ==
    \/ FetchData
    \/ GetCryptoPrice
    \/ Tick

\* A process that uses MarketData alone.
MarketSpec == ClientInit /\ [][MarketNext]_vars

(* ------------------------------ properties ----------------------------- *)


LogItems == transactions.items

Executed(c) == c.op = "makeTransaction"

\* A Buy or Sell object with both attributes set and positive.
FullTx(t, cls) ==
    /\ t.cls = cls
    /\ t.hasAmount /\ t.hasPrice
    /\ t.amount > 0 /\ t.pointPrice > 0

RECURSIVE SumSignedValue(_)
SumSignedValue(items) ==
    IF items = <<>> THEN 0
    ELSE value(Head(items)).val + SumSignedValue(Tail(items))

HasSignedValue(t) == value(t).exc = "None" /\ ~value(t).isNone

C3_OversellRejected ==
    (/\ Executed(call)
     /\ call.tx.cls = "Sell" /\ call.tx.hasAmount
     /\ call.tx.amount > NetAmount(call.preLog.items, call.tx.crypto_id))
    => (/\ call.exc = "InsufficientHoldings"
        /\ funds = call.preFunds
        /\ transactions = call.preLog)

\* C4: executing a Buy whose cost exceeds the funds is rejected with
\* InsufficientFunds and changes neither funds nor log; funds is never
\* negative on a ledger created with startingFunds >= 0.
C4_UnaffordableBuyRejected ==
    /\ (/\ Executed(call)
        /\ call.tx.cls = "Buy" /\ HasSignedValue(call.tx)
        /\ call.preFunds + value(call.tx).val < 0)
       => (/\ call.exc = "InsufficientFunds"
           /\ funds = call.preFunds
           /\ transactions = call.preLog)
    /\ (startingFunds >= 0 => funds >= 0)

IsPrefix(s, t) == Len(s) <= Len(t) /\ \A i \in 1..Len(s) : s[i] = t[i]

C8_NewLedger ==
    /\ startingFunds >= 0
    /\ (call.op = "init" => transactions = ListOf(<<>>) /\ funds = startingFunds)
    /\ (call.op = "seeCurrentFunds" /\ LogItems = <<>> => call.ret = startingFunds)

\* C9: on a ledger without accepted transactions valuation() returns 0.0
\* and leaves funds and log unchanged.
C9_EmptyValuation ==
    (call.op = "seePortfolioValue" /\ call.preLog.items = <<>>)
    => (/\ call.exc = "None"
        /\ call.ret = 0
        /\ funds = call.preFunds
        /\ transactions = call.preLog)

RECURSIVE PricedValue(_, _, _)
\* Sum of price * holdings over the instruments with positive holdings
\* that have a price.
PricedValue(coins, items, prices) ==
    IF coins = {} THEN 0
    ELSE LET c == CHOOSE x \in coins : TRUE
             part == IF c \in DOMAIN prices /\ NetAmount(items, c) > 0
                     THEN prices[c] * NetAmount(items, c) ELSE 0
         IN part + PricedValue(coins \ {c}, items, prices)

AvailablePrices(resp) ==
    IF resp.kind = "json" THEN get_current_price(resp).prices ELSE <<>>

\* C10: valuation() does not fail; it returns the non-negative sum of
\* price * holdings over the held instruments whose price is available.
C10_Valuation ==
    call.op = "seePortfolioValue"
    => (/\ call.exc = "None"
        /\ call.ret >= 0
        /\ call.ret = Round2(PricedValue(Ids, call.preLog.items, AvailablePrices(call.resp))))

\* The price the price source has for the id, when it has one.
HasPriceFor(resp, id) ==
    /\ get_current_price(resp).exc = "None"
    /\ id \in DOMAIN get_current_price(resp).prices

PriceFor(resp, id) == get_current_price(resp).prices[id]

Constructed(c) == c.op \in {"Transaction", "Buy", "Sell"} /\ c.exc = "None"

\* C16: constructing a Buy or a Sell when the price source has no price
\* for the id, or a price <= 0, fails with PriceUnavailable and yields no
\* object; every transaction object that exists has a pointPrice > 0 and
\* its crypto_id and amount set.
C16_PriceUnavailable ==
    /\ (/\ call.op \in {"Buy", "Sell"}
        /\ (~HasPriceFor(call.resp, call.argId) \/ PriceFor(call.resp, call.argId) <= 0))
       => (call.exc = "PriceUnavailable" /\ call.tx = NoTx)
    /\ Constructed(call)
       => (/\ call.tx.hasPrice /\ call.tx.pointPrice > 0
           /\ call.tx.hasAmount /\ call.tx.crypto_id = call.argId)

\* C17: constructing a Buy or a Sell with a quantity <= 0 fails with
\* InvalidArgument (ValueError), and every transaction object that exists
\* has a quantity > 0.
C17_QuantityPositive ==
    /\ (call.op \in {"Buy", "Sell"} /\ call.argAmount <= 0)
       => (call.exc = "ValueError" /\ call.tx = NoTx)
    /\ Constructed(call) => (call.tx.hasAmount /\ call.tx.amount > 0)

(* ------------------------- client properties --------------------------- *)

ValidLimit(limit) == MinLimit <= limit /\ limit <= MaxLimit

\* C11: a fetch_data whose limit lies outside 1..250 raises ValueError,
\* makes no transport call, and leaves the cache and the timestamp as they
\* were.
C11_LimitChecked ==
    [][(ncall'.op = "fetch_data" /\ ~ValidLimit(ncall'.limit))
       => (/\ ncall'.exc = "ValueError"
           /\ ncall'.calls = 0
           /\ data' = data
           /\ previous_updates' = previous_updates)]_vars

C11_Witness ==
    /\ ncall.op = "fetch_data"
    /\ ~ValidLimit(ncall.limit)
    /\ ncall.exc = "ValueError"
    /\ data # <<>>

\* C12: each request through the limiter is made at least rate_limit_delay
\* after the one before it.
C12_Spacing ==
    [][wrappers' # wrappers
       => last_request_time' >= last_request_time + rate_limit_delay]_vars

C12_Witness ==
    /\ ncall.op = "_make_request"
    /\ ncall.slept > 0
    /\ wrappers > 1

\* The wait the retry loop owes for its k-th 429 (k from 0).
ExpectedWait(c, k) ==
    LET a == AnswerAt(Server(c.n429, c.withHeader, NoServer.final), k) IN
    IF a.retryAfter # 0 THEN a.retryAfter ELSE rate_limit_delay * Pow2(k)

\* C13: under 429 answers the k-th wait of a request is the Retry-After
\* value when the answer has one and rate_limit_delay * 2^k otherwise; a
\* request makes at most max_retries + 1 transport calls, however many
\* requests came before it, and then fails with RuntimeError; an answer
\* other than 429 ends the loop at once.
C13_Backoff ==
    ncall.op = "_make_request"
    => /\ \A k \in 1..Len(ncall.waits) : ncall.waits[k] = ExpectedWait(ncall, k - 1)
       /\ ncall.calls <= max_retries + 1
       /\ ncall.n429 > max_retries
          => (ncall.exc = "RuntimeError" /\ Len(ncall.waits) = max_retries + 1)
       /\ ncall.n429 <= max_retries
          => (/\ ncall.exc = "None"
              /\ Len(ncall.waits) = ncall.n429
              /\ ncall.calls = ncall.n429 + 1)

C13_Witness ==
    /\ ncall.op = "_make_request"
    /\ ncall.exc = "RuntimeError"
    /\ ncall.withHeader = "even"
    /\ wrappers > 1

\* C14: the global requests.get is never wrapped, and fetch_data goes
\* through no retry loop.
C14_TransportUntouched ==
    /\ wrappers = 0
    /\ ncall.op = "fetch_data" => (ncall.calls <= 1 /\ ncall.waits = <<>>)

\* C15: every operation of the client returns a result, whatever the
\* transport does; no exception leaves it.
C15_NoException ==
    ncall.op \in {"_make_request", "fetch_data"}
    => (ncall.exc = "None" /\ ncall.ret \in {"data", "empty", "True", "False"})

\* A response row with an id, a non-empty symbol and a price that is a
\* number not below zero.
CompleteRow(r) ==
    /\ r.hasId
    /\ r.hasSymbol /\ r.symbol # ""
    /\ r.hasPrice /\ ~r.priceNull /\ r.price >= 0

RECURSIVE CompleteRows(_)
CompleteRows(body) ==
    IF body = <<>> THEN <<>>
    ELSE (IF CompleteRow(Head(body)) THEN <<StoredRow(Head(body))>> ELSE <<>>)
         \o CompleteRows(Tail(body))

\* C18: every stored row has a non-empty symbol and a price that is a
\* number not below zero; a successful fetch stores the complete rows of
\* the response and no other; a response without a complete row makes the
\* fetch fail.
C18_RowsComplete ==
    /\ \A i \in 1..Len(data) :
          data[i].symbol # "" /\ ~data[i].priceNull /\ data[i].current_price >= 0
    /\ (ncall.op = "fetch_data" /\ ncall.ret = "True")
       => data = CompleteRows(ncall.body)
    /\ (ncall.op = "fetch_data" /\ ValidLimit(ncall.limit) /\ CompleteRows(ncall.body) = <<>>)
       => ncall.ret = "False"

\* C19: the cache and the timestamp change only in a fetch_data that
\* returns True, which stores a non-empty cache and the time of the fetch;
\* until then the cache is empty and the timestamp None.
C19_ChangeOnlyOnSuccess ==
    [][/\ (data' # data \/ previous_updates' # previous_updates)
          => (/\ ncall'.op = "fetch_data"
              /\ ncall'.ret = "True"
              /\ data' # <<>>
              /\ previous_updates' = TimeAt(now'))
       /\ previous_updates'.isNone <=> data' = <<>>]_vars

C19_Witness ==
    /\ ncall.op = "fetch_data"
    /\ ValidLimit(ncall.limit)
    /\ ncall.ret = "False"
    /\ data # <<>>
    /\ previous_updates.at < now

\* The rows of the cache whose symbol is the query, case aside.
CaseInsensitiveHits(sym, d) ==
    {i \in 1..Len(d) : Lower(Strip(d[i].symbol)) = Lower(Strip(sym))}

\* C20: get_crypto_price raises ValueError for an empty or blank symbol,
\* returns the price of the row whose symbol is the query in any case, and
\* None when the cache is empty or has no such row; it never changes the
\* cache.
C20_CaseInsensitive ==
    ncall.op = "get_crypto_price"
    => LET hits == CaseInsensitiveHits(ncall.symbol, data) IN
       IF Strip(ncall.symbol) = "" THEN ncall.exc = "ValueError"
       ELSE /\ ncall.exc = "None"
            /\ hits = {} => ncall.ret = "None"
            /\ hits # {} =>
                 \E i \in hits :
                    /\ \A j \in hits : i <= j
                    /\ \/ data[i].priceNull
                       \/ (ncall.ret = "price" /\ ncall.price = data[i].current_price)

====
